---- MODULE Spec2Model ----
(***************************************************************************)
(* Model of the AI mobile PR reviewer (src/scripts): the orchestrator     *)
(* PRReviewer.run with its collaborators (GitHubClient, FileFilter,       *)
(* RubricLoader, PromptBuilder, SlackClient), the risk-label parser and   *)
(* the paginated changed-file listing.                                     *)
(*                                                                         *)
(* Texts are sequences of one-character strings, so that the regular      *)
(* expressions of the source are computed character by character.         *)
(***************************************************************************)
EXTENDS Integers, Sequences, FiniteSets, TLC

VARIABLES
    pc,             \* position of the process: main.py / reviewer.py
    how,            \* how the process ended ("" while it runs)
    exit_code,      \* process exit status (-1 while it runs)
    config,         \* the Config object (attribute name -> value)
    event,          \* the pull-request event payload
    changed_files,  \* result of fetch_changed_files in run()
    idx,            \* for-loop position in run() (1-based)
    evaluated,      \* how many changed files the loop body has looked at
    prepared,       \* the prepared list of run()
    prompt,         \* the prompt built by make_prompt
    review,         \* text returned by openai_review
    risk_level,     \* result of parse_risk_level
    exc,            \* the exception caught at reviewer.py:104
    log,            \* every external call made so far, in order
    total,          \* fetch_changed_files: number of files the server holds
    page,           \* fetch_changed_files: page requested next
    files,          \* fetch_changed_files: accumulated list
    fpc,            \* fetch_changed_files: position
    arg_filename,   \* is_ignored: the filename passed in
    arg_globs,      \* is_ignored: the FILE_GLOBS string the filter was built from
    ret_ignored,    \* is_ignored: the value returned
    arg_patch,      \* sanitize_patch: the patch passed in
    arg_max_chars,  \* sanitize_patch: the max_chars passed in
    ret_sanitized   \* sanitize_patch: the value returned

vars == <<pc, how, exit_code, config, event, changed_files, idx, evaluated,
          prepared, prompt, review, risk_level, exc, log, total, page, files, fpc,
          arg_filename, arg_globs, ret_ignored, arg_patch, arg_max_chars,
          ret_sanitized>>

riskVars  == <<review, risk_level>>
fetchVars == <<total, page, files, fpc>>
filterVars == <<arg_filename, arg_globs, ret_ignored>>
sanitizeVars == <<arg_patch, arg_max_chars, ret_sanitized>>

----------------------------------------------------------------------------
(* Bounds of the model                                                     *)

MaxChanged == 2        \* changed files listed by the server in a run
MaxFilesBound == 2     \* MAX_FILES ranges over 0..MaxFilesBound
MaxTokens == 3         \* review texts are built from at most this many tokens
MaxTotal == 250        \* server-side file totals for the paginated listing

----------------------------------------------------------------------------
(* Characters and texts                                                    *)

UpperChars == <<"A","B","C","D","E","F","G","H","I","J","K","L","M",
                "N","O","P","Q","R","S","T","U","V","W","X","Y","Z">>
LowerChars == <<"a","b","c","d","e","f","g","h","i","j","k","l","m",
                "n","o","p","q","r","s","t","u","v","w","x","y","z">>
DigitChars == {"0","1","2","3","4","5","6","7","8","9"}

\* str.lower() / re.IGNORECASE folding of one character
lowerc(c) ==
    IF \E i \in 1..26 : UpperChars[i] = c
    THEN LowerChars[CHOOSE i \in 1..26 : UpperChars[i] = c]
    ELSE c

\* str.lower()
lower(s) == [i \in 1..Len(s) |-> lowerc(s[i])]

\* regex \s
IsSpace(c) == c \in {" ", "\n", "\t", "\r"}

\* regex \w
IsWord(c) ==
    \/ \E i \in 1..26 : LowerChars[i] = lowerc(c)
    \/ c \in DigitChars
    \/ c = "_"

RECURSIVE Cat(_)
\* concatenation of a sequence of texts
Cat(ss) == IF ss = <<>> THEN <<>> ELSE Head(ss) \o Cat(Tail(ss))

\* literal (already lower case) matches text at position i, ignoring case
MatchesAt(text, i, lit) ==
    /\ i >= 1
    /\ i + Len(lit) - 1 <= Len(text)
    /\ \A k \in 1..Len(lit) : lowerc(text[i + k - 1]) = lit[k]

\* regex \b at the gap before position i
WordAt(text, i) == i >= 1 /\ i <= Len(text) /\ IsWord(text[i])
Boundary(text, i) == WordAt(text, i - 1) # WordAt(text, i)

RECURSIVE SkipSpace(_, _)
\* regex \s* from position i (greedy): first position that is not whitespace
SkipSpace(text, i) ==
    IF i <= Len(text) /\ IsSpace(text[i]) THEN SkipSpace(text, i + 1) ELSE i

LOW    == <<"l","o","w">>
MEDIUM == <<"m","e","d","i","u","m">>
HIGH   == <<"h","i","g","h">>
RISK_ASSESSMENT == <<"r","i","s","k"," ","a","s","s","e","s","s","m","e","n","t",":">>
HIGH_RISK == <<"h","i","g","h"," ","r","i","s","k">>
NoMatch == <<>>

RECURSIVE lstrip(_)
\* str.lstrip()
lstrip(s) == IF s # <<>> /\ IsSpace(Head(s)) THEN lstrip(Tail(s)) ELSE s

RECURSIVE rstrip(_)
\* str.rstrip()
rstrip(s) ==
    IF s # <<>> /\ IsSpace(s[Len(s)]) THEN rstrip(SubSeq(s, 1, Len(s) - 1)) ELSE s

\* str.strip()
strip(s) == rstrip(lstrip(s))

----------------------------------------------------------------------------
(* PRReviewer.parse_risk_level (reviewer.py:43-52)                         *)

\* r"Risk Assessment:\s*(Low|Medium|High)" tried at position i with
\* re.IGNORECASE: group(1) as written in the text, or NoMatch
RiskAssessmentAt(text, i) ==
    IF ~MatchesAt(text, i, RISK_ASSESSMENT) THEN NoMatch
    ELSE LET j == SkipSpace(text, i + Len(RISK_ASSESSMENT)) IN
         IF MatchesAt(text, j, LOW) THEN SubSeq(text, j, j + Len(LOW) - 1)
         ELSE IF MatchesAt(text, j, MEDIUM) THEN SubSeq(text, j, j + Len(MEDIUM) - 1)
         ELSE IF MatchesAt(text, j, HIGH) THEN SubSeq(text, j, j + Len(HIGH) - 1)
         ELSE NoMatch

RECURSIVE SearchRiskAssessment(_, _)
\* re.search: the leftmost position at which the pattern matches
SearchRiskAssessment(text, i) ==
    IF i > Len(text) THEN NoMatch
    ELSE IF RiskAssessmentAt(text, i) # NoMatch THEN RiskAssessmentAt(text, i)
    ELSE SearchRiskAssessment(text, i + 1)

\* r"\bHigh risk\b" tried at position i with re.IGNORECASE
HighRiskAt(text, i) ==
    /\ Boundary(text, i)
    /\ MatchesAt(text, i, HIGH_RISK)
    /\ Boundary(text, i + Len(HIGH_RISK))

RECURSIVE SearchHighRisk(_, _)
SearchHighRisk(text, i) ==
    IF i > Len(text) THEN FALSE
    ELSE IF HighRiskAt(text, i) THEN TRUE
    ELSE SearchHighRisk(text, i + 1)

\* mutant: the matched group is returned as written (no .lower())
parse_risk_level_nolower(review_text) ==
    LET m == SearchRiskAssessment(review_text, 1) IN
    IF m # NoMatch THEN strip(m)
    ELSE IF SearchHighRisk(review_text, 1) THEN HIGH
    ELSE LOW

parse_risk_level(review_text) ==
    LET m == SearchRiskAssessment(review_text, 1) IN
    IF m # NoMatch THEN lower(strip(m))
    ELSE IF SearchHighRisk(review_text, 1) THEN HIGH
    ELSE LOW

\* review texts: concatenations of at most MaxTokens of these tokens
RiskTokens ==
    { <<"R","i","s","k"," ","A","s","s","e","s","s","m","e","n","t",":">>,
      <<"r","i","s","k"," ","a","s","s","e","s","s","m","e","n","t",":"," ","m","e","d","i","u","m">>,
      <<" ">>, <<"\n">>,
      <<"L","o","w">>, <<"M","E","D","I","U","M">>, <<"H","i","g","h">>,
      <<"H","i","g","h"," ">>,
      <<"r","i","s","k">>, <<"y">>, <<".">> }

RiskTexts ==
    { Cat(ts) : ts \in UNION { [1..n -> RiskTokens] : n \in 0..MaxTokens } }


----------------------------------------------------------------------------
(* FileFilter (file_filter.py)                                             *)

\* text ends with the (lower-case) literal, ignoring case; "$" also matches
\* just before a final newline
EndsWith(text, lit) ==
    \/ MatchesAt(text, Len(text) - Len(lit) + 1, lit)
    \/ /\ text # <<>>
       /\ text[Len(text)] = "\n"
       /\ MatchesAt(text, Len(text) - Len(lit), lit)

\* "(^|/)" holds at position i
SegmentStart(text, i) == i = 1 \/ (i > 1 /\ i <= Len(text) + 1 /\ text[i - 1] = "/")

\* ignore_patterns[0]: directory names, written in lower case
IgnoreDirs ==
    { <<"d","i","s","t">>,
      <<"b","u","i","l","d">>,
      <<"o","u","t","p","u","t","s">>,
      <<"o","u","t">>,
      <<"c","o","v","e","r","a","g","e">>,
      <<"n","o","d","e","_","m","o","d","u","l","e","s">>,
      <<"p","o","d","s">>,
      <<"v","e","n","d","o","r">>,
      <<".","g","i","t">> }

\* ignore_patterns[2]: extensions (woff2? is written out)
IgnoreExts ==
    { <<"m","i","n",".","j","s">>,
      <<"l","o","c","k">>,
      <<"p","n","g">>,
      <<"j","p","g">>,
      <<"j","p","e","g">>,
      <<"g","i","f">>,
      <<"s","v","g">>,
      <<"i","c","o">>,
      <<"p","d","f">>,
      <<"z","i","p">>,
      <<"g","z">>,
      <<"t","g","z">>,
      <<"j","a","r">>,
      <<"a","a","b">>,
      <<"a","p","k">>,
      <<"m","p","3">>,
      <<"m","p","4">>,
      <<"m","o","v">>,
      <<"w","e","b","m">>,
      <<"w","o","f","f","2">>,
      <<"w","o","f","f">> }

\* ignore_patterns[3]: lock files
IgnoreLockFiles ==
    { <<"p","a","c","k","a","g","e","-","l","o","c","k",".","j","s","o","n">>,
      <<"y","a","r","n",".","l","o","c","k">>,
      <<"p","n","p","m","-","l","o","c","k",".","y","a","m","l">>,
      <<"c","o","m","p","o","s","e","r",".","l","o","c","k">> }

\* ignore_patterns[4]: IDE metadata directories
IgnoreIdeDirs ==
    { <<".","g","r","a","d","l","e","/">>,
      <<".","i","d","e","a","/">>,
      <<".","v","s","/">> }

DERIVED_DATA == <<"d","e","r","i","v","e","d","d","a","t","a","/">>

\* re.search(p, filename, re.IGNORECASE) for the five ignore patterns, in order
IgnorePatternMatches(k, filename) ==
    CASE k = 1 -> \E i \in 1..Len(filename) : \E d \in IgnoreDirs :
                     /\ SegmentStart(filename, i)
                     /\ MatchesAt(filename, i, d \o <<"/">>)
      [] k = 2 -> \E i \in 1..Len(filename) :
                     /\ SegmentStart(filename, i)
                     /\ MatchesAt(filename, i, DERIVED_DATA)
      [] k = 3 -> \E e \in IgnoreExts : EndsWith(filename, <<".">> \o e)
      [] k = 4 -> \E l \in IgnoreLockFiles :
                     \/ /\ MatchesAt(filename, Len(filename) - Len(l) + 1, l)
                        /\ SegmentStart(filename, Len(filename) - Len(l) + 1)
                     \/ /\ filename # <<>>
                        /\ filename[Len(filename)] = "\n"
                        /\ MatchesAt(filename, Len(filename) - Len(l), l)
                        /\ SegmentStart(filename, Len(filename) - Len(l))
      [] k = 5 -> \E i \in 1..Len(filename) : \E d \in IgnoreIdeDirs :
                     /\ SegmentStart(filename, i)
                     /\ MatchesAt(filename, i, d)

RECURSIVE SplitOn(_, _)
\* str.split(sep) for a one-character separator
SplitOn(s, sep) ==
    LET at == { i \in 1..Len(s) : s[i] = sep } IN
    IF at = {} THEN <<s>>
    ELSE LET i == CHOOSE i \in at : \A j \in at : i <= j
         IN <<SubSeq(s, 1, i - 1)>> \o SplitOn(SubSeq(s, i + 1, Len(s)), sep)

\* FileFilter._compile_glob_regex: the stripped, non-empty parts of the glob
\* list; the empty sequence stands for None
compile_glob_regex(globs) ==
    LET parts == SplitOn(globs, ",")
        kept  == SelectSeq(parts, LAMBDA p : strip(p) # <<>>)
    IN [i \in 1..Len(kept) |-> strip(kept[i])]

RECURSIVE GlobMatch(_, _)
\* one translated glob matches the whole of t: "*" became ".*" (any run of
\* characters other than a newline), every other character is itself
GlobMatch(g, t) ==
    IF g = <<>> THEN t = <<>>
    ELSE IF Head(g) = "*"
         THEN \/ GlobMatch(Tail(g), t)
              \/ t # <<>> /\ Head(t) # "\n" /\ GlobMatch(g, Tail(t))
         ELSE t # <<>> /\ lowerc(Head(t)) = lowerc(Head(g)) /\ GlobMatch(Tail(g), Tail(t))

\* glob_re.search(filename): some alternative matches a suffix of filename
\* ("$" also matches before a final newline)
GlobSearch(glob_re, filename) ==
    \E k \in 1..Len(glob_re) : \E i \in 1..(Len(filename) + 1) :
        \/ GlobMatch(glob_re[k], SubSeq(filename, i, Len(filename)))
        \/ /\ filename # <<>>
           /\ filename[Len(filename)] = "\n"
           /\ i <= Len(filename)
           /\ GlobMatch(glob_re[k], SubSeq(filename, i, Len(filename) - 1))

\* mutant: a configured glob list alone decides
is_ignored_globfirst(glob_re, filename) ==
    IF glob_re # <<>> THEN ~GlobSearch(glob_re, filename)
    ELSE \E k \in 1..5 : IgnorePatternMatches(k, filename)

\* FileFilter.is_ignored
is_ignored(glob_re, filename) ==
    IF \E k \in 1..5 : IgnorePatternMatches(k, filename) THEN TRUE
    ELSE IF glob_re # <<>> /\ ~GlobSearch(glob_re, filename) THEN TRUE
    ELSE FALSE


\* longest line kept whole by sanitize_patch
LineLimit == 2000

\* the suffix appended to a trimmed line: a space, three non-ASCII
\* characters (named c1..c3 here) and "(trimmed)", 13 characters
TRIMMED == <<" ","c1","c2","c3">> \o <<"(","t","r","i","m","m","e","d",")">>

\* Python slice s[:n]
SliceTo(s, n) ==
    IF n >= 0 THEN SubSeq(s, 1, IF n < Len(s) THEN n ELSE Len(s))
    ELSE SubSeq(s, 1, IF Len(s) + n > 0 THEN Len(s) + n ELSE 0)

\* the line boundaries of str.splitlines(): \n, \r, \x0b, \x0c, \x1c, \x1d,
\* \x1e, \x85, \u2028, \u2029 (the ones TLA+ cannot write are named)
LineBreaks == {"\n", "\r", "\f", "x0b", "x1c", "x1d", "x1e", "x85", "u2028", "u2029"}

IsBreak(c) == c \in LineBreaks

RECURSIVE splitlines(_)
\* str.splitlines(): "\r\n" is one boundary, a final boundary opens no line
splitlines(s) ==
    IF s = <<>> THEN <<>>
    ELSE LET breaks == { i \in 1..Len(s) : IsBreak(s[i]) } IN
         IF breaks = {} THEN <<s>>
         ELSE LET i == CHOOSE i \in breaks : \A j \in breaks : i <= j
                  w == IF s[i] = "\r" /\ i < Len(s) /\ s[i + 1] = "\n" THEN 2 ELSE 1
              IN <<SubSeq(s, 1, i - 1)>> \o splitlines(SubSeq(s, i + w, Len(s)))

RECURSIVE join(_, _)
\* sep.join(lines)
join(sep, lines) ==
    IF lines = <<>> THEN <<>>
    ELSE IF Len(lines) = 1 THEN lines[1]
    ELSE lines[1] \o sep \o join(sep, Tail(lines))

\* the loop body of sanitize_patch for one line
TrimLine(line) ==
    IF Len(line) > LineLimit THEN SubSeq(line, 1, LineLimit) \o TRIMMED ELSE line

\* mutant: the patch is not cut to max_chars
sanitize_patch_uncut(patch, max_chars) ==
    IF patch = <<>> THEN <<>>
    ELSE LET lines == splitlines(patch)
         IN join(<<"\n">>, [i \in 1..Len(lines) |-> TrimLine(lines[i])])

\* FileFilter.sanitize_patch
sanitize_patch(patch, max_chars) ==
    IF patch = <<>> THEN <<>>
    ELSE LET lines == splitlines(SliceTo(patch, max_chars))
         IN join(<<"\n">>, [i \in 1..Len(lines) |-> TrimLine(lines[i])])


----------------------------------------------------------------------------
(* Config (config.py)                                                      *)

RequiredEnv == {"GITHUB_TOKEN", "GITHUB_REPOSITORY", "GITHUB_EVENT_PATH", "OPENAI_API_KEY"}

\* default of FILE_GLOBS (config.py:21)
DefaultFileGlobs ==
    <<"*",".","k","t",",","*",".","k","t","s",",","*",".","j","a","v","a",",","*",".","x","m","l",",","*",".","s","w","i","f","t",",","*",".","m",",","*",".","m","m",",","*",".","g","r","a","d","l","e",",","*",".","g","r","a","d","l","e",".","k","t","s",",","*",".","p","r","o",",","*",".","p","l","i","s","t",",","*",".","m","d">>

DefaultMaxPatchChars == 12000

\* Config.__init__: the attributes it sets, and no others.  missing is the
\* set of required variables that are unset in the environment.
Config(missing, max_files, file_globs, rubric_url) ==
    [ github_token    |-> IF "GITHUB_TOKEN" \in missing THEN "" ELSE "ghp_token",
      repo            |-> IF "GITHUB_REPOSITORY" \in missing THEN "" ELSE "org/repo",
      event_path      |-> IF "GITHUB_EVENT_PATH" \in missing THEN "" ELSE "/event.json",
      openai_api_key  |-> IF "OPENAI_API_KEY" \in missing THEN "" ELSE "sk-key",
      model_name      |-> "gpt-4o-mini",
      max_patch_chars |-> DefaultMaxPatchChars,
      max_files       |-> max_files,
      file_globs      |-> file_globs,
      rubric_url      |-> rubric_url ]

\* Config.validate: TRUE when all four required values are non-empty
validate(cfg) ==
    /\ cfg.github_token # ""
    /\ cfg.repo # ""
    /\ cfg.event_path # ""
    /\ cfg.openai_api_key # ""

\* Python attribute lookup on an object without __getattr__
HasAttr(obj, name) == name \in DOMAIN obj

Configs ==
    { Config(missing, mf, globs, url) :
        missing \in {{}} \cup {{v} : v \in RequiredEnv},
        mf \in 0..MaxFilesBound,
        globs \in {DefaultFileGlobs, <<>>},
        url \in {"", "https://rubric"} }

----------------------------------------------------------------------------
(* The pull-request event (reviewer.py:21-28)                              *)

Events ==
    { [pull_request |-> FALSE, has_number |-> FALSE, number |-> 0, title |-> "t"],
      [pull_request |-> TRUE,  has_number |-> FALSE, number |-> 0, title |-> "t"],
      [pull_request |-> TRUE,  has_number |-> TRUE,  number |-> 0, title |-> "t"],
      [pull_request |-> TRUE,  has_number |-> TRUE,  number |-> 7, title |-> "t"] }

\* mutant: the object alone is tested, not its number
NotPrNumber_objonly(ev) == ~ev.pull_request

\* "not self.pr_number": no pull_request object, no number, or number 0
NotPrNumber(ev) == ~ev.pull_request \/ ~ev.has_number \/ ev.number = 0

----------------------------------------------------------------------------
(* RubricLoader.load_rubric (rubric_loader.py:10-39).  Rubric texts are    *)
(* sequences of words.                                                      *)

NO_RUBRIC_URL == <<"No", "rubric", "URL", "provided", ".">>

\* the f-string of lines 20-39
FallbackRubric(rubric_url, e) ==
    <<"#", "AI", "Mobile", "PR", "Review", "Rubric", "(", "Fallback", ")",
      "##", "Correctness", "##", "Performance", "##", "Security",
      "##", "Readability", "/", "Maintainability", "##", "Testing", "/", "Coverage",
      "(", "Failed", "to", "load", "rubric", "from", rubric_url, ":", e, ")">>

\* what requests.get + raise_for_status can do
RubricResponses ==
    { [ok |-> TRUE,  text |-> <<"#", "Team", "rubric">>, error |-> ""],
      [ok |-> TRUE,  text |-> <<>>, error |-> ""],
      [ok |-> FALSE, text |-> <<>>, error |-> "Timeout"],
      [ok |-> FALSE, text |-> <<>>, error |-> "HTTPError"],
      [ok |-> FALSE, text |-> <<>>, error |-> "ConnectionError"] }

\* mutant: the response text is returned without raise_for_status and
\* without the except branch
load_rubric_unchecked(rubric_url, resp) ==
    IF rubric_url # "" THEN resp.text ELSE NO_RUBRIC_URL

load_rubric(rubric_url, resp) ==
    IF rubric_url # ""
    THEN IF resp.ok THEN resp.text ELSE FallbackRubric(rubric_url, resp.error)
    ELSE NO_RUBRIC_URL

\* PromptBuilder.make_prompt: the parts of the prompt that vary
make_prompt(pr_title, file_summaries, rubric_text) ==
    [ rubric_text |-> rubric_text,
      pr_title    |-> pr_title,
      files_block |-> [i \in 1..Len(file_summaries) |->
                          [filename |-> file_summaries[i].filename,
                           patch    |-> file_summaries[i].patch]] ]

NoPrompt == [rubric_text |-> <<>>, pr_title |-> "", files_block |-> <<>>]

----------------------------------------------------------------------------
(* SlackClient.post_message (slack_client.py:10-30) and                    *)
(* PRReviewer.send_slack_alert (reviewer.py:54-65)                         *)

\* post_message: no request without a webhook; otherwise one request whose
\* failure is swallowed.  Never raises.
post_message(webhook_url, delivered) ==
    IF webhook_url = "" THEN [request |-> FALSE, result |-> FALSE]
    ELSE [request |-> TRUE, result |-> delivered]

ATTRIBUTE_ERROR == <<"'Config' object has no attribute 'slack_webhook_url'">>

\* mutant: no risk guard, and the webhook read with a default
send_slack_alert_unguarded(level, cfg) ==
    [ raised |-> FALSE, error |-> <<>>, post_message |-> TRUE,
      webhook_url |-> IF HasAttr(cfg, "slack_webhook_url")
                      THEN cfg.slack_webhook_url ELSE "" ]

\* send_slack_alert up to its call of post_message: returns at line 57,
\* raises at line 60 (self.config.slack_webhook_url), or calls post_message
send_slack_alert(level, cfg) ==
    IF level # HIGH
    THEN [raised |-> FALSE, error |-> <<>>, post_message |-> FALSE, webhook_url |-> ""]
    ELSE IF ~HasAttr(cfg, "slack_webhook_url")
    THEN [raised |-> TRUE, error |-> ATTRIBUTE_ERROR, post_message |-> FALSE, webhook_url |-> ""]
    ELSE [raised |-> FALSE, error |-> <<>>, post_message |-> TRUE,
          webhook_url |-> cfg.slack_webhook_url]

----------------------------------------------------------------------------
(* Changed files and review texts of the orchestrator runs                 *)

ChangedFile(filename, patch) ==
    [filename |-> filename, status |-> "modified", additions |-> 1, deletions |-> 0,
     patch |-> patch]

FileSamples ==
    { ChangedFile(<<"M","a","i","n","A","c","t","i","v","i","t","y",".","k","t">>, <<"+","x">>),
      ChangedFile(<<"a","p","p","/","b","u","i","l","d","/","o","u","t","p","u","t",".","a","p","k">>, <<>>),
      ChangedFile(<<"R","E","A","D","M","E",".","m","d">>, <<" ","\n"," ">>),
      ChangedFile(<<"i","o","s","/","A","p","p",".","s","w","i","f","t">>, <<"-","y","\n","+","z">>),
      ChangedFile(<<"n","o","t","e","s",".","t","x","t">>, <<"+","n">>) }

ChangedFileLists == UNION { [1..n -> FileSamples] : n \in 0..MaxChanged }

ReviewSamples ==
    { <<"R","i","s","k"," ","A","s","s","e","s","s","m","e","n","t",":"," ","H","i","g","h">>,
      <<"r","i","s","k"," ","a","s","s","e","s","s","m","e","n","t",":","\n","M","E","D","I","U","M">>,
      <<"L","o","o","k","s"," ","f","i","n","e",".">>,
      <<"R","i","s","k"," ","A","s","s","e","s","s","m","e","n","t",":"," ","L","o","w">> }


----------------------------------------------------------------------------
(* The process: main.py and PRReviewer                                     *)

\* one external call, as recorded in log
Call(op, ok, kind, detail) == [op |-> op, ok |-> ok, kind |-> kind, detail |-> detail]

\* process exit
Exit(h, code) == pc' = "exited" /\ how' = h /\ exit_code' = code

\* values of the variables of the other processes while one is modelled
RunIdle ==
    /\ how = "" /\ exit_code = -1
    /\ config = Config({}, 0, <<>>, "")
    /\ event = [pull_request |-> FALSE, has_number |-> FALSE, number |-> 0, title |-> "t"]
    /\ changed_files = <<>> /\ idx = 1 /\ evaluated = 0 /\ prepared = <<>>
    /\ prompt = NoPrompt /\ exc = <<>>
RiskIdle  == review = <<>> /\ risk_level = <<>>
FetchIdle == total = 0 /\ page = 1 /\ files = <<>> /\ fpc = "idle"
FilterIdle == arg_filename = <<>> /\ arg_globs = <<>> /\ ret_ignored = <<>>
SanitizeIdle == arg_patch = <<>> /\ arg_max_chars = 0 /\ ret_sanitized = <<>>

\* the state once Config() is constructed in load_config (config.py:36)
Init ==
    /\ pc = "validate"
    /\ how = "" /\ exit_code = -1
    /\ config \in Configs
    /\ event \in Events
    /\ changed_files = <<>> /\ idx = 1 /\ evaluated = 0 /\ prepared = <<>>
    /\ prompt = NoPrompt /\ exc = <<>>
    /\ log = <<>>
    /\ RiskIdle
    /\ FetchIdle
    /\ FilterIdle
    /\ SanitizeIdle

\* load_config: config.validate() (config.py:28-32, 37)
Validate ==
    /\ pc = "validate"
    /\ IF validate(config)
       THEN pc' = "reviewer_init" /\ UNCHANGED <<how, exit_code>>
       ELSE Exit("config_error", 1)
    /\ UNCHANGED <<config, event, changed_files, idx, evaluated, prepared, prompt,
                   exc, log, riskVars, fetchVars,
                   filterVars, sanitizeVars>>

\* main.py:14-18: the collaborators are built and PRReviewer.__init__ reads
\* the event; sys.exit(0) when it is not a pull-request event
PRReviewerInit ==
    /\ pc = "reviewer_init"
    /\ IF NotPrNumber(event)
       THEN Exit("not_pr_event", 0)
       ELSE pc' = "fetch_changed_files" /\ UNCHANGED <<how, exit_code>>
    /\ UNCHANGED <<config, event, changed_files, idx, evaluated, prepared, prompt,
                   exc, log, riskVars, fetchVars,
                   filterVars, sanitizeVars>>

\* reviewer.py:69: the listing of a pull request with fewer files than one
\* page (a single request); a failed request is not caught by run() or main()
FetchChangedFiles ==
    /\ pc = "fetch_changed_files"
    /\ \/ /\ \E fs \in ChangedFileLists : changed_files' = fs
          /\ log' = Append(log, Call("github.get_files", TRUE, "page", <<>>))
          /\ pc' = "for_loop"
          /\ UNCHANGED <<how, exit_code>>
       \/ /\ log' = Append(log, Call("github.get_files", FALSE, "page", <<>>))
          /\ Exit("uncaught", 1)
          /\ UNCHANGED changed_files
    /\ UNCHANGED <<config, event, idx, evaluated, prepared, prompt, exc,
                   riskVars, fetchVars,
                   filterVars, sanitizeVars>>

\* reviewer.py:72-87: one iteration of the for loop, or its exhaustion
ForLoop ==
    /\ pc = "for_loop"
    /\ IF idx > Len(changed_files)
       THEN /\ pc' = "if_not_prepared"
            /\ UNCHANGED <<idx, evaluated, prepared>>
       ELSE LET f        == changed_files[idx]
                glob_re  == compile_glob_regex(config.file_globs)
                ignored  == is_ignored(glob_re, f.filename)
                patch    == sanitize_patch(f.patch, config.max_patch_chars)
                skip     == ignored \/ strip(patch) = <<>>
                appended == Append(prepared,
                                [filename |-> f.filename, status |-> f.status,
                                 additions |-> f.additions, deletions |-> f.deletions,
                                 patch |-> patch])
            IN /\ evaluated' = evaluated + 1
               /\ idx' = idx + 1
               /\ prepared' = IF skip THEN prepared ELSE appended
               /\ pc' = IF ~skip /\ Len(appended) >= config.max_files
                        THEN "if_not_prepared" ELSE "for_loop"
    /\ UNCHANGED <<how, exit_code, config, event, changed_files, prompt, exc, log,
                   riskVars, fetchVars,
                   filterVars, sanitizeVars>>

\* mutant: the return of line 91 is missing, so the run goes on to make_prompt
NothingToReview_noreturn ==
    /\ pc = "if_not_prepared"
    /\ prepared = <<>>
    /\ \E ok \in BOOLEAN :
          IF ok
          THEN \E resp \in RubricResponses :
                  /\ prompt' = make_prompt(event.title, prepared,
                                           load_rubric(config.rubric_url, resp))
                  /\ log' = Append(log, Call("github.post_comment", TRUE, "notice", <<>>))
                  /\ pc' = "openai_review"
                  /\ UNCHANGED <<how, exit_code>>
          ELSE /\ log' = Append(log, Call("github.post_comment", FALSE, "notice", <<>>))
               /\ Exit("uncaught", 1)
               /\ UNCHANGED prompt
    /\ UNCHANGED <<config, event, changed_files, idx, evaluated, prepared,
                   exc, riskVars, fetchVars,
                   filterVars, sanitizeVars>>

\* reviewer.py:89-91: the "nothing to review" notice; a failed post is not caught
NothingToReview ==
    /\ pc = "if_not_prepared"
    /\ prepared = <<>>
    /\ \E ok \in BOOLEAN :
          /\ log' = Append(log, Call("github.post_comment", ok, "notice", <<>>))
          /\ IF ok THEN Exit("returned", 0) ELSE Exit("uncaught", 1)
    /\ UNCHANGED <<config, event, changed_files, idx, evaluated, prepared, prompt,
                   exc, riskVars, fetchVars,
                   filterVars, sanitizeVars>>

\* reviewer.py:93-95: make_prompt, which calls load_rubric
MakePrompt ==
    /\ pc = "if_not_prepared"
    /\ prepared # <<>>
    /\ \E resp \in RubricResponses :
          /\ prompt' = make_prompt(event.title, prepared, load_rubric(config.rubric_url, resp))
          /\ log' = IF config.rubric_url # ""
                    THEN Append(log, Call("rubric.get", resp.ok, "rubric",
                                          IF resp.ok THEN resp.text ELSE <<resp.error>>))
                    ELSE log
    /\ pc' = "openai_review"
    /\ UNCHANGED <<how, exit_code, config, event, changed_files, idx, evaluated,
                   prepared, exc, riskVars, fetchVars,
                   filterVars, sanitizeVars>>

\* reviewer.py:98-99: the model call and parse_risk_level
OpenAIReview ==
    /\ pc = "openai_review"
    /\ \/ /\ \E r \in ReviewSamples :
                /\ review' = r
                /\ risk_level' = parse_risk_level(r)
          /\ log' = Append(log, Call("openai.create", TRUE, "prompt", <<>>))
          /\ pc' = "post_review"
          /\ UNCHANGED exc
       \/ /\ log' = Append(log, Call("openai.create", FALSE, "prompt", <<>>))
          /\ exc' = <<"APIError">>
          /\ pc' = "except"
          /\ UNCHANGED riskVars
    /\ UNCHANGED <<how, exit_code, config, event, changed_files, idx, evaluated,
                   prepared, prompt, fetchVars,
                   filterVars, sanitizeVars>>

\* mutant: the post of the review comment is outside the try block
PostReviewComment_uncaught ==
    /\ pc = "post_review"
    /\ \E ok \in BOOLEAN :
          /\ log' = Append(log, Call("github.post_comment", ok, "review", review))
          /\ IF ok THEN pc' = "send_slack_alert" /\ UNCHANGED <<how, exit_code>>
                   ELSE Exit("uncaught", 1)
    /\ UNCHANGED <<config, event, changed_files, idx, evaluated,
                   prepared, prompt, exc, riskVars, fetchVars,
                   filterVars, sanitizeVars>>

\* reviewer.py:100-102: post the review comment
PostReviewComment ==
    /\ pc = "post_review"
    /\ \E ok \in BOOLEAN :
          /\ log' = Append(log, Call("github.post_comment", ok, "review", review))
          /\ IF ok THEN pc' = "send_slack_alert" /\ UNCHANGED exc
                   ELSE pc' = "except" /\ exc' = <<"HTTPError">>
    /\ UNCHANGED <<how, exit_code, config, event, changed_files, idx, evaluated,
                   prepared, prompt, riskVars, fetchVars,
                   filterVars, sanitizeVars>>

\* reviewer.py:103: send_slack_alert, then run() returns and main exits 0
SendSlackAlert ==
    /\ pc = "send_slack_alert"
    /\ LET a == send_slack_alert(risk_level, config) IN
       IF a.raised
       THEN /\ exc' = a.error
            /\ pc' = "except"
            /\ UNCHANGED <<how, exit_code, log>>
       ELSE /\ IF a.post_message
               THEN \E delivered \in BOOLEAN :
                       LET r == post_message(a.webhook_url, delivered) IN
                       log' = Append(log, Call("slack.post_message", r.result,
                                               IF r.request THEN "request" ELSE "skipped",
                                               <<>>))
               ELSE log' = log
            /\ Exit("returned", 0)
            /\ UNCHANGED exc
    /\ UNCHANGED <<config, event, changed_files, idx, evaluated, prepared, prompt,
                   riskVars, fetchVars,
                   filterVars, sanitizeVars>>

\* reviewer.py:104-105: the failure comment; a failed post is not caught
PostFailureComment ==
    /\ pc = "except"
    /\ \E ok \in BOOLEAN :
          /\ log' = Append(log, Call("github.post_comment", ok, "failed", exc))
          /\ IF ok THEN Exit("returned", 0) ELSE Exit("uncaught", 1)
    /\ UNCHANGED <<config, event, changed_files, idx, evaluated, prepared, prompt,
                   exc, riskVars, fetchVars,
                   filterVars, sanitizeVars>>

Next ==
    \/ Validate
    \/ PRReviewerInit
    \/ FetchChangedFiles
    \/ ForLoop
    \/ NothingToReview
    \/ MakePrompt
    \/ OpenAIReview
    \/ PostReviewComment
    \/ SendSlackAlert
    \/ PostFailureComment

Spec == Init /\ [][Next]_vars


----------------------------------------------------------------------------
(* parse_risk_level on its own: every review text of RiskTexts             *)

RiskInit ==
    /\ pc = "parse_risk_level"
    /\ review \in RiskTexts
    /\ risk_level = <<>>
    /\ RunIdle
    /\ log = <<>>
    /\ FetchIdle
    /\ FilterIdle
    /\ SanitizeIdle

\* reviewer.py:99: risk_level = self.parse_risk_level(review)
ParseRiskLevel ==
    /\ pc = "parse_risk_level"
    /\ risk_level' = parse_risk_level(review)
    /\ pc' = "parsed"
    /\ UNCHANGED <<how, exit_code, config, event, changed_files, idx, evaluated,
                   prepared, prompt, exc, log, review, fetchVars,
                   filterVars, sanitizeVars>>

RiskNext == ParseRiskLevel

RiskSpec == RiskInit /\ [][RiskNext]_vars

----------------------------------------------------------------------------
(* GitHubClient.fetch_changed_files (http_client.py:36-45) page by page    *)

\* per_page of the request (http_client.py:40) and the stop test (line 42)
PerPage == 100

\* the server holds files 1..t and answers page p of size PerPage
ServerPage(t, p) ==
    LET first == (p - 1) * PerPage
        n     == IF t - first >= PerPage THEN PerPage
                 ELSE IF t - first > 0 THEN t - first ELSE 0
    IN [i \in 1..n |-> first + i]

\* mutant: the loop stops on a full page too
ListingDone_le(chunk) == Len(chunk) <= PerPage

\* http_client.py:42: if len(chunk) < 100: break
ListingDone(chunk) == Len(chunk) < PerPage

FetchInit ==
    /\ pc = "fetch_listing"
    /\ fpc = "get"
    /\ total \in 0..MaxTotal
    /\ page = 1
    /\ files = <<>>
    /\ log = <<>>
    /\ RunIdle
    /\ RiskIdle
    /\ FilterIdle
    /\ SanitizeIdle

\* http_client.py:40-44: one page is received
GetPage ==
    /\ fpc = "get"
    /\ LET chunk == ServerPage(total, page) IN
          /\ log' = Append(log, Call("github.get_files", TRUE, "page", <<page>>))
          /\ files' = files \o chunk
          /\ IF ListingDone(chunk)
             THEN fpc' = "returned" /\ page' = page
             ELSE fpc' = "get" /\ page' = page + 1
    /\ UNCHANGED <<pc, how, exit_code, config, event, changed_files, idx, evaluated,
                   prepared, prompt, exc, riskVars, total,
                   filterVars, sanitizeVars>>

\* http_client.py:22: raise_for_status (or the request itself) raises; the
\* exception leaves fetch_changed_files
GetPageRaises ==
    /\ fpc = "get"
    /\ log' = Append(log, Call("github.get_files", FALSE, "page", <<page>>))
    /\ fpc' = "raised"
    /\ UNCHANGED <<pc, how, exit_code, config, event, changed_files, idx, evaluated,
                   prepared, prompt, exc, riskVars, total, page, files,
                   filterVars, sanitizeVars>>

FetchNext == GetPage \/ GetPageRaises

\* the single thread keeps running: each request returns or raises within
\* its timeout
FetchFairSpec == FetchInit /\ [][FetchNext]_vars /\ WF_vars(FetchNext)


----------------------------------------------------------------------------
(* is_ignored on its own (file_filter.py:24-30)                            *)

MaxNameTokens == 3

\* pieces filenames are built from
NameTokens ==
    { <<"P","o","d","s">>,
      <<"/">>,
      <<"x">>,
      <<".","k","t">>,
      <<".","A","P","K">>,
      <<"y","a","r","n",".","l","o","c","k">>,
      <<"\n">> }

FilterNames ==
    { Cat(ts) : ts \in UNION { [1..n -> NameTokens] : n \in 1..MaxNameTokens } }

\* values of FILE_GLOBS: the default, the empty string, and custom lists
GlobLists ==
    { DefaultFileGlobs,
      <<>>,
      <<" ",","," ">>,
      <<"*",".","K","T",","," ","*",".","m","d"," ",",">>,
      <<"x","*",".","k","t">>,
      <<"*",".","a","p","k">> }

\* FileFilter(config.file_globs) is constructed and is_ignored is about to
\* be called
FilterInit ==
    /\ pc = "is_ignored"
    /\ arg_filename \in FilterNames
    /\ arg_globs \in GlobLists
    /\ ret_ignored = <<>>
    /\ log = <<>>
    /\ RunIdle
    /\ RiskIdle
    /\ FetchIdle
    /\ SanitizeIdle

\* reviewer.py:74: self.file_filter.is_ignored(filename)
IsIgnored ==
    /\ pc = "is_ignored"
    /\ ret_ignored' = is_ignored(compile_glob_regex(arg_globs), arg_filename)
    /\ pc' = "filtered"
    /\ UNCHANGED <<how, exit_code, config, event, changed_files, idx, evaluated,
                   prepared, prompt, exc, log, riskVars, fetchVars,
                   arg_filename, arg_globs, sanitizeVars>>

FilterNext == IsIgnored

FilterSpec == FilterInit /\ [][FilterNext]_vars


----------------------------------------------------------------------------
(* sanitize_patch on its own (file_filter.py:32-43)                        *)

MaxPatchTokens == 3

\* a run of n diff characters
Run(n) == [i \in 1..n |-> "x"]

\* pieces patches are built from: short text, line boundaries, and a run
\* of exactly the per-line limit
PatchTokens ==
    { <<"+">>, <<"+","\n">>, <<"\r","\n">>, <<"\r">>, <<"\f">>, Run(LineLimit) }

Patches ==
    { Cat(ts) : ts \in UNION { [1..n -> PatchTokens] : n \in 0..MaxPatchTokens } }

\* values of max_chars >= 0, around the patch lengths and the line limit
MaxCharsSamples ==
    { 0, 1, 2, LineLimit, LineLimit + 1, LineLimit + 3, DefaultMaxPatchChars }

\* sanitize_patch is about to be called
SanitizeInit ==
    /\ pc = "sanitize_patch"
    /\ arg_patch \in Patches
    /\ arg_max_chars \in MaxCharsSamples
    /\ ret_sanitized = <<>>
    /\ log = <<>>
    /\ RunIdle
    /\ RiskIdle
    /\ FetchIdle
    /\ FilterIdle

\* reviewer.py:76: self.file_filter.sanitize_patch(patch, max_patch_chars)
SanitizePatch ==
    /\ pc = "sanitize_patch"
    /\ ret_sanitized' = sanitize_patch(arg_patch, arg_max_chars)
    /\ pc' = "sanitized"
    /\ UNCHANGED <<how, exit_code, config, event, changed_files, idx, evaluated,
                   prepared, prompt, exc, log, riskVars, fetchVars, filterVars,
                   arg_patch, arg_max_chars>>

SanitizeNext == SanitizePatch

SanitizeSpec == SanitizeInit /\ [][SanitizeNext]_vars


----------------------------------------------------------------------------
(* Observations on a run                                                   *)

Ended == pc = "exited"

\* the comments that reached the pull request, and all requests to post one
Comments == SelectSeq(log, LAMBDA c : c.op = "github.post_comment" /\ c.ok)
CommentRequests == SelectSeq(log, LAMBDA c : c.op = "github.post_comment")

\* invocations of the Alert Gateway (SlackClient.post_message)
AlertCalls == SelectSeq(log, LAMBDA c : c.op = "slack.post_message")

Made(op)      == \E i \in DOMAIN log : log[i].op = op
Succeeded(op) == \E i \in DOMAIN log : log[i].op = op /\ log[i].ok
Failed(op)    == \E i \in DOMAIN log : log[i].op = op /\ ~log[i].ok

ReviewPosted ==
    \E i \in DOMAIN log :
        log[i].op = "github.post_comment" /\ log[i].kind = "review" /\ log[i].ok
ReviewPostFailed ==
    \E i \in DOMAIN log :
        log[i].op = "github.post_comment" /\ log[i].kind = "review" /\ ~log[i].ok

\* the four required configuration values are present
ValidConfiguration ==
    /\ config.github_token # "" /\ config.repo # ""
    /\ config.event_path # "" /\ config.openai_api_key # ""

\* the event has no pull_request object with a number
EventWithoutPrNumber == ~event.pull_request \/ ~event.has_number

\* a pipeline run: valid configuration and a pull-request event
PipelineRun == ValidConfiguration /\ event.pull_request /\ event.has_number /\ event.number # 0

----------------------------------------------------------------------------
(* Claims                                                                  *)

\* C1: in a run with valid configuration, a pull-request event and at least
\* one prepared file, in which the code host accepts the comments, a
\* successful model call whose risk label is "high" has, by the end of the
\* run, the review comment posted and the Alert Gateway invoked exactly once.
C1_HighRiskAlertsOnce ==
    ( /\ Ended
      /\ PipelineRun
      /\ prepared # <<>>
      /\ Succeeded("openai.create")
      /\ risk_level = HIGH
      /\ ~Failed("github.post_comment") )
    => (ReviewPosted /\ Len(AlertCalls) = 1)

\* C2: alerting never affects the review outcome: whenever the model call
\* succeeded and the review comment was posted, no exception reaches the
\* handler of run(), and the run ends with exactly that one comment on the
\* pull request and run() returned normally.
C2_AlertNeverAffectsReview ==
    /\ ReviewPosted => pc # "except"
    /\ (Ended /\ Succeeded("openai.create") /\ ReviewPosted)
       => ( /\ Len(Comments) = 1
            /\ Comments[1].kind = "review"
            /\ how = "returned"
            /\ exit_code = 0 )

\* C3 as stated: after a failed model call or a failed review-comment post
\* the run ends with the failure comment (carrying the error detail) as the
\* only comment, run() returned and the exit code is 0.
C3_Original ==
    (Ended /\ (Failed("openai.create") \/ ReviewPostFailed))
    => ( /\ Len(Comments) = 1
         /\ Comments[1].kind = "failed"
         /\ Comments[1].detail = exc
         /\ how = "returned"
         /\ exit_code = 0 )

\* C3 amended: after a failed model call or a failed review-comment post the
\* exception is caught and the last request of the run is the post of one
\* failure comment carrying the error detail, with no review comment posted;
\* if that post succeeds it is the only comment and the process exits 0, and
\* if it fails the error is not caught: no comment, abnormal exit.
C3_FailureCaughtAndReported ==
    /\ (pc = "except" /\ (Failed("openai.create") \/ ReviewPostFailed))
       => (exc \in {<<"APIError">>, <<"HTTPError">>} /\ ~ReviewPosted)
    /\ (Ended /\ (Failed("openai.create") \/ ReviewPostFailed))
       => LET last == log[Len(log)] IN
          /\ last.op = "github.post_comment"
          /\ last.kind = "failed"
          /\ last.detail = exc
          /\ exc \in {<<"APIError">>, <<"HTTPError">>}
          /\ Len(SelectSeq(log, LAMBDA c : c.kind = "failed")) = 1
          /\ ~ReviewPosted
          /\ AlertCalls = <<>>
          /\ last.ok  => (Comments = <<last>> /\ how = "returned" /\ exit_code = 0)
          /\ ~last.ok => (Comments = <<>> /\ how = "uncaught" /\ exit_code = 1)

\* C3 witness: the model call failed, the failure comment was posted, exit 0
C3_Witness ==
    /\ Ended
    /\ Failed("openai.create")
    /\ Len(Comments) = 1
    /\ Comments[1].kind = "failed"
    /\ exit_code = 0

\* C4: the Alert Gateway is invoked only for the risk label "high" of a
\* successful model response and only after the review comment was posted;
\* runs with the label "low" or "medium", no-op runs, runs with nothing to
\* review and runs whose model call failed never invoke it.
C4_AlertOnlyOnHighAfterComment ==
    /\ \A i \in DOMAIN log :
          log[i].op = "slack.post_message"
          => /\ risk_level = HIGH
             /\ \E j \in 1..(i - 1) : log[j].op = "openai.create" /\ log[j].ok
             /\ \E j \in 1..(i - 1) :
                   /\ log[j].op = "github.post_comment"
                   /\ log[j].kind = "review"
                   /\ log[j].ok
    /\ (Succeeded("openai.create") /\ risk_level \in {LOW, MEDIUM}) => AlertCalls = <<>>
    /\ how = "not_pr_event" => AlertCalls = <<>>
    /\ (\E i \in DOMAIN log : log[i].kind = "notice") => AlertCalls = <<>>
    /\ Failed("openai.create") => AlertCalls = <<>>

\* C4 witness: a completed review with the label "medium", comment posted,
\* no alert
C4_Witness ==
    /\ Ended
    /\ how = "returned"
    /\ Succeeded("openai.create")
    /\ risk_level = MEDIUM
    /\ ReviewPosted
    /\ AlertCalls = <<>>


\* what C5 calls an explicit statement: "Risk Assessment:" in any case,
\* any amount of whitespace, then the level word in any case
StatementAt(text, i, lvl) ==
    /\ MatchesAt(text, i, RISK_ASSESSMENT)
    /\ \E k \in 0..Len(text) :
          /\ \A j \in 1..k :
                /\ i + 15 + j <= Len(text)
                /\ IsSpace(text[i + 15 + j])
          /\ MatchesAt(text, i + 16 + k, lvl)

RiskLevels == {LOW, MEDIUM, HIGH}

HasStatement(text) ==
    \E i \in 1..Len(text) : \E lvl \in RiskLevels : StatementAt(text, i, lvl)

\* the level of the statement that starts first
FirstStatementLevel(text) ==
    CHOOSE lvl \in RiskLevels :
        \E i \in 1..Len(text) :
            /\ StatementAt(text, i, lvl)
            /\ \A j \in 1..(i - 1) : \A l \in RiskLevels : ~StatementAt(text, j, l)

\* "High risk" in any case, not preceded and not followed by a word character
StandaloneHighRisk(text) ==
    \E i \in 1..Len(text) :
        /\ MatchesAt(text, i, HIGH_RISK)
        /\ (i = 1 \/ ~IsWord(text[i - 1]))
        /\ (i + 9 > Len(text) \/ ~IsWord(text[i + 9]))

\* C5: parse_risk_level returns one of low, medium, high: the lower-cased
\* level of the first explicit "Risk Assessment: <level>" statement when
\* there is one (whatever "High risk" phrases the text has), otherwise high
\* when the text has a standalone "High risk", otherwise low.
C5_ParseRiskLevel ==
    pc = "parsed" =>
        /\ risk_level \in RiskLevels
        /\ HasStatement(review) => risk_level = FirstStatementLevel(review)
        /\ (~HasStatement(review) /\ StandaloneHighRisk(review)) => risk_level = HIGH
        /\ (~HasStatement(review) /\ ~StandaloneHighRisk(review)) => risk_level = LOW

\* C5 witness: an explicit statement that is not "high" in a text that also
\* has a standalone "High risk"
C5_Witness ==
    /\ pc = "parsed"
    /\ HasStatement(review)
    /\ StandaloneHighRisk(review)
    /\ risk_level # HIGH

\* the for loop of run() is over
FilteringDone ==
    \/ pc \in {"if_not_prepared", "openai_review", "post_review", "send_slack_alert", "except"}
    \/ Ended /\ Succeeded("github.get_files")

\* C6: at the end of the filtering step the prepared list has at most the
\* configured maximum number of entries, and when the maximum was reached the
\* file that reached it is the last changed file that was looked at.
C6_PreparedWithinCap ==
    FilteringDone =>
        /\ Len(prepared) <= config.max_files
        /\ (prepared # <<>> /\ Len(prepared) >= config.max_files)
           => changed_files[evaluated].filename = prepared[Len(prepared)].filename

\* C7 as stated: when the listing succeeded and no file was prepared, the run
\* ends with the notice as its only comment, run() returned, and no rubric
\* fetch, model call or alert was made.
C7_Original ==
    (Ended /\ Succeeded("github.get_files") /\ prepared = <<>>)
    => ( /\ Len(Comments) = 1
         /\ Comments[1].kind = "notice"
         /\ how = "returned"
         /\ exit_code = 0
         /\ ~Made("rubric.get") /\ ~Made("openai.create") /\ AlertCalls = <<>> )

\* C7 amended: when no file was prepared the orchestrator makes exactly one
\* comment request, the notice, and no rubric fetch, model call or alert; if
\* the request succeeds the notice is the only comment and run() returns
\* (exit 0), and if it fails the error is not caught: no comment, abnormal
\* exit.
C7_NothingToReview ==
    (Ended /\ Succeeded("github.get_files") /\ prepared = <<>>)
    => LET last == log[Len(log)] IN
       /\ Len(CommentRequests) = 1
       /\ last.op = "github.post_comment"
       /\ last.kind = "notice"
       /\ ~Made("rubric.get") /\ ~Made("openai.create") /\ AlertCalls = <<>>
       /\ prompt = NoPrompt
       /\ last.ok  => (Comments = <<last>> /\ how = "returned" /\ exit_code = 0)
       /\ ~last.ok => (Comments = <<>> /\ how = "uncaught" /\ exit_code = 1)

\* C7 witness: a listing whose files were all filtered out, notice posted
C7_Witness ==
    /\ Ended
    /\ changed_files # <<>>
    /\ prepared = <<>>
    /\ Len(Comments) = 1
    /\ Comments[1].kind = "notice"
    /\ how = "returned"

\* C8: with a valid configuration, an event without a pull_request object
\* that has a number ends the process with exit code 0 and without any
\* external call (no listing, rubric fetch, model call, comment or alert).
C8_NotPrEventIsNoOp ==
    /\ (ValidConfiguration /\ EventWithoutPrNumber /\ pc \notin {"validate", "reviewer_init"})
       => (Ended /\ log = <<>>)
    /\ (Ended /\ ValidConfiguration /\ EventWithoutPrNumber)
       => (how = "not_pr_event" /\ exit_code = 0 /\ log = <<>> /\ prompt = NoPrompt)

\* C8 witness: a pull_request object without a number, process ended
C8_Witness ==
    /\ Ended
    /\ ValidConfiguration
    /\ event.pull_request
    /\ ~event.has_number
    /\ how = "not_pr_event"
    /\ exit_code = 0

\* the prompt has been built
PromptBuilt == pc \in {"openai_review", "post_review", "send_slack_alert", "except"}
               \/ Made("openai.create")

\* C9 as stated: once the prompt is built its rubric text is the fetched body
\* when the fetch succeeded, and otherwise (failed fetch, or no rubric
\* location) the fallback rubric, which contains the word "Fallback".
C9_Original ==
    PromptBuilt
    => IF Succeeded("rubric.get")
       THEN \E i \in DOMAIN log :
               log[i].op = "rubric.get" /\ prompt.rubric_text = log[i].detail
       ELSE \E k \in DOMAIN prompt.rubric_text : prompt.rubric_text[k] = "Fallback"

\* C9 amended: the rubric loader never raises, so every run with a prepared
\* file builds its prompt and goes on to the model call.  With a rubric
\* location there is exactly one fetch: its body is the rubric text when it
\* succeeds, and when it fails the rubric text is the fallback rubric, which
\* has the word "Fallback" and names the location and the error.  Without a
\* rubric location there is no fetch and the rubric text is the notice
\* "No rubric URL provided.".
C9_RubricNeverBlocks ==
    /\ PromptBuilt =>
          LET fetches == SelectSeq(log, LAMBDA c : c.op = "rubric.get")
              rubric  == prompt.rubric_text
          IN IF config.rubric_url = ""
             THEN fetches = <<>> /\ rubric = NO_RUBRIC_URL
             ELSE /\ Len(fetches) = 1
                  /\ fetches[1].ok => rubric = fetches[1].detail
                  /\ ~fetches[1].ok
                     => /\ \E k \in DOMAIN rubric : rubric[k] = "Fallback"
                        /\ \E k \in DOMAIN rubric : rubric[k] = config.rubric_url
                        /\ \E k \in DOMAIN rubric : rubric[k] = fetches[1].detail[1]
    /\ Made("rubric.get") => PromptBuilt
    /\ (Ended /\ PromptBuilt) => Made("openai.create")

\* C9 witness: the rubric fetch failed, the prompt carries the fallback
\* rubric and the model was called
C9_Witness ==
    /\ Failed("rubric.get")
    /\ Succeeded("openai.create")
    /\ \E k \in DOMAIN prompt.rubric_text : prompt.rubric_text[k] = "Fallback"

\* C10: the pages are requested one after the other from page 1, each once;
\* a further page is requested only after a full page; the listing returns at
\* the first short page, after total \div 100 + 1 requests, with the files of
\* all pages in page order; a failed request ends the listing at once, with
\* no request after it; and every listing ends.
C10_Listing ==
    /\ [] ( /\ \A i \in DOMAIN log :
                  log[i].op = "github.get_files" /\ log[i].detail = <<i>>
            /\ \A i \in 1..(Len(log) - 1) :
                  log[i].ok /\ Len(ServerPage(total, i)) = PerPage
            /\ Len(log) <= (total \div PerPage) + 1
            /\ fpc = "get" => page = Len(log) + 1
            /\ fpc = "returned"
               => /\ log[Len(log)].ok
                  /\ Len(ServerPage(total, Len(log))) < PerPage
                  /\ Len(log) = (total \div PerPage) + 1
                  /\ Len(files) = total
                  /\ \A i \in 1..total : files[i] = i
            /\ fpc = "raised"
               => ~log[Len(log)].ok )
    /\ <>(fpc \in {"returned", "raised"})

\* C10 witness: a listing of exactly two full pages returned after the third
\* (empty) page
C10_Witness ==
    /\ fpc = "returned"
    /\ total = 2 * PerPage
    /\ Len(log) = 3
    /\ Len(files) = total

\* ---- C11 ----------------------------------------------------------------
\* the directory components of a path and its last component
Components(f) == SplitOn(f, "/")
DirNames(f) == LET c == Components(f) IN { lower(c[k]) : k \in 1..(Len(c) - 1) }
BaseName(f) == LET c == Components(f) IN c[Len(c)]
\* the text without one final newline
Chomp(t) == IF t # <<>> /\ t[Len(t)] = "\n" THEN SubSeq(t, 1, Len(t) - 1) ELSE t
HasSuffix(t, suf) ==
    Len(t) >= Len(suf) /\ SubSeq(t, Len(t) - Len(suf) + 1, Len(t)) = suf

IgnoredDirNames ==
    IgnoreDirs \cup { SubSeq(d, 1, Len(d) - 1) : d \in IgnoreIdeDirs \cup {DERIVED_DATA} }

\* the filename matches at least one ignore pattern: it lies in an ignored
\* directory, has an ignored extension, or is a lock file
MatchesIgnorePattern(f) ==
    \/ DirNames(f) \cap IgnoredDirNames # {}
    \/ \E e \in IgnoreExts : \E t \in {f, Chomp(f)} : HasSuffix(lower(t), <<".">> \o e)
    \/ \E t \in {BaseName(f), Chomp(BaseName(f))} : lower(t) \in IgnoreLockFiles

\* the globs of a FILE_GLOBS string: its non-blank comma-separated entries
GlobEntries(g) ==
    LET parts == SplitOn(g, ",") IN { strip(parts[k]) : k \in 1..Len(parts) } \ {<<>>}

\* the filename matches the suffix-anchored, case-insensitive glob
MatchesGlob(g, f) ==
    \E t \in {f, Chomp(f)} : \E i \in 1..(Len(t) + 1) : GlobMatch(g, SubSeq(t, i, Len(t)))

Filtered == pc = "filtered"
IgnorePatternCase == MatchesIgnorePattern(arg_filename)
GlobCase(entries) ==
    /\ entries # {}
    /\ \A g \in entries : ~MatchesGlob(g, arg_filename)

\* C11: is_ignored returns true exactly when the filename matches an ignore
\* pattern, or a non-empty glob list is configured and the filename matches
\* none of its globs; an ignore-pattern match is ignored whatever the glob
\* list is, and with an empty glob list only the ignore patterns decide
C11_IsIgnored ==
    Filtered =>
        LET entries == GlobEntries(arg_globs)
            pattern == IgnorePatternCase
        IN /\ ret_ignored = (pattern \/ GlobCase(entries))
           /\ (pattern => ret_ignored = TRUE)
           /\ (entries = {} => ret_ignored = pattern)

\* a file in an ignored directory that one of the configured globs matches
\* is ignored
C11_Witness ==
    /\ Filtered
    /\ IgnorePatternCase
    /\ \E g \in GlobEntries(arg_globs) : MatchesGlob(g, arg_filename)
    /\ ret_ignored = TRUE

\* ---- C12 ----------------------------------------------------------------
Sanitized == pc = "sanitized"

\* Python min(len(patch), max_chars) characters are read: the input cut to
\* max_chars (max_chars >= 0)
TruncatedInput ==
    [i \in 1..(IF arg_max_chars < Len(arg_patch) THEN arg_max_chars ELSE Len(arg_patch))
       |-> arg_patch[i]]

\* the lines of the cut input and of the output (the output puts one "\n"
\* between lines; no input line yields no output line)
InputLines == splitlines(TruncatedInput)
OutputLines(lines) == IF lines = <<>> THEN <<>> ELSE SplitOn(ret_sanitized, "\n")
TrimmedLines(lines) == { k \in 1..Len(lines) : Len(lines[k]) > LineLimit }

\* C12: for max_chars >= 0 the text sanitize_patch returns is no longer than
\* max_chars plus the suffix length for each trimmed line; every output
\* line is at most 2000 characters, or 2000 characters followed by the trim
\* suffix; the k-th output line is the k-th line of the cut input, unchanged
\* when that has at most 2000 characters and its first 2000 characters plus
\* the suffix otherwise; an empty input gives an empty output
C12_SanitizePatch ==
    Sanitized =>
        LET lines   == InputLines
            out     == OutputLines(lines)
            trimmed == TrimmedLines(lines)
        IN /\ Len(ret_sanitized) <= arg_max_chars + Len(TRIMMED) * Cardinality(trimmed)
           /\ \A k \in 1..Len(out) :
                 \/ Len(out[k]) <= LineLimit
                 \/ /\ Len(out[k]) = LineLimit + Len(TRIMMED)
                    /\ SubSeq(out[k], LineLimit + 1, LineLimit + Len(TRIMMED)) = TRIMMED
           /\ Len(out) = Len(lines)
           /\ \A k \in 1..Len(lines) :
                 IF k \in trimmed
                 THEN out[k] = SubSeq(lines[k], 1, LineLimit) \o TRIMMED
                 ELSE out[k] = lines[k]
           /\ (lines = <<>> => ret_sanitized = <<>>)
           /\ (arg_patch = <<>> => ret_sanitized = <<>>)

\* a patch cut by max_chars in which a short line is kept and a long line
\* is trimmed
C12_Witness ==
    /\ Sanitized
    /\ Len(arg_patch) > arg_max_chars
    /\ Len(ret_sanitized) > arg_max_chars
    /\ LET lines == InputLines IN
          /\ TrimmedLines(lines) # {}
          /\ \E k \in 1..Len(lines) : Len(lines[k]) \in 1..LineLimit

\* ---- C13 ----------------------------------------------------------------
\* the file is not ignored by the filter and its sanitized diff is not blank
Eligible(f) ==
    /\ ~is_ignored(compile_glob_regex(config.file_globs), f.filename)
    /\ strip(sanitize_patch(f.patch, config.max_patch_chars)) # <<>>

\* the eligible changed files, in the order of the listing
EligibleFiles == SelectSeq(changed_files, LAMBDA f : Eligible(f))

\* how many files the cap allows to be prepared
CapCount == IF config.max_files < Len(EligibleFiles) THEN config.max_files
            ELSE Len(EligibleFiles)

\* C13: at the end of the filtering step the prepared list is exactly the
\* first eligible changed files, up to the configured maximum, in the order
\* of the listing, each with its sanitized diff.
C13_PreparedIsFirstEligible ==
    FilteringDone =>
        /\ Len(prepared) = CapCount
        /\ \A k \in 1..Len(prepared) :
              /\ k <= Len(EligibleFiles)
              /\ prepared[k].filename = EligibleFiles[k].filename
              /\ prepared[k].patch =
                    sanitize_patch(EligibleFiles[k].patch, config.max_patch_chars)

====
